---------------------------- MODULE Spec2Model ----------------------------
(***************************************************************************)
(* Model of the Sudoku facade (src/sudoku.rs): puzzle generation by clue   *)
(* removal, the equivalence shuffle and the solving operations.  The       *)
(* solver behind the facade (SudokuSolver) is modelled from its written    *)
(* contract: constraint propagation plus depth-first search.               *)
(***************************************************************************)
EXTENDS Integers, Sequences, FiniteSets

(***************************************************************************)
(* Geometry of the 9x9 board, cells 0..80 in row-major order.              *)
(***************************************************************************)
N_CELLS == 81
Cells == 0 .. (N_CELLS - 1)
Digits == 1 .. 9
Row(c) == c \div 9
Col(c) == c % 9
Box(c) == (Row(c) \div 3) * 3 + (Col(c) \div 3)
RowOf == [c \in Cells |-> Row(c)]
ColOf == [c \in Cells |-> Col(c)]
BoxOf == [c \in Cells |-> Box(c)]
Peers == [c \in Cells |-> {p \in Cells : p # c /\ (RowOf[p] = RowOf[c] \/ ColOf[p] = ColOf[c] \/ BoxOf[p] = BoxOf[c])}]
\* houses 0..8 are the rows, 9..17 the columns, 18..26 the boxes
Houses == 0 .. 26
HouseCells == [h \in Houses |-> IF h < 9 THEN {c \in Cells : RowOf[c] = h}
                                ELSE IF h < 18 THEN {c \in Cells : ColOf[c] = h - 9}
                                ELSE {c \in Cells : BoxOf[c] = h - 18}]

EmptyGrid == [c \in Cells |-> 0]

(***************************************************************************)
(* The solver: candidate sets per cell, naked and hidden singles, and a    *)
(* depth-first search that branches on the positions of a digit in a house.*)
(***************************************************************************)
\* TLC keeps a function expression unevaluated; comparing it fixes its value
Fix(f) == IF f = f THEN f ELSE f
ClueConflict(g) == \E c \in Cells : g[c] # 0 /\ \E p \in Peers[c] : g[p] = g[c]
InitCand(g) == Fix([c \in Cells |-> IF g[c] # 0 THEN {} ELSE {d \in Digits : \A p \in Peers[c] : g[p] # d}])
Apply(st, c, d) == [grid |-> Fix([st.grid EXCEPT ![c] = d]),
                    cand |-> Fix([x \in Cells |-> IF x = c THEN {}
                                                  ELSE IF x \in Peers[c] THEN st.cand[x] \ {d}
                                                  ELSE st.cand[x]])]
\* the still open positions of digit d in house h
Positions(st, d, h) == {c \in HouseCells[h] : d \in st.cand[c]}
Placed(st, d, h) == \E c \in HouseCells[h] : st.grid[c] = d
Unsatisfiable(st) ==
    \/ \E c \in Cells : st.grid[c] = 0 /\ st.cand[c] = {}
    \/ \E h \in Houses, d \in Digits : ~Placed(st, d, h) /\ Positions(st, d, h) = {}
NakedSingles(st) == {c \in Cells : st.grid[c] = 0 /\ Cardinality(st.cand[c]) = 1}
HiddenSingles(st) == {hd \in Houses \X Digits : Cardinality(Positions(st, hd[2], hd[1])) = 1}
Min(S) == CHOOSE x \in S : \A y \in S : x <= y
\* one step of constraint propagation: place the lowest naked single, else a hidden single
HasSingle(st) == NakedSingles(st) # {} \/ HiddenSingles(st) # {}
PlaceSingle(st) ==
    LET ns == NakedSingles(st) IN
    IF ns # {}
    THEN LET c == Min(ns) IN Apply(st, c, CHOOSE d \in st.cand[c] : TRUE)
    ELSE LET hd == CHOOSE x \in HiddenSingles(st) : TRUE
             c == CHOOSE x \in Positions(st, hd[2], hd[1]) : TRUE
         IN Apply(st, c, hd[2])
IsFull(g) == \A c \in Cells : g[c] # 0
\* most constrained (house, digit) pair: minimum popcount, then lowest house, then lowest digit
GuessKey(st) ==
    LET open == {hd \in Houses \X Digits : Positions(st, hd[2], hd[1]) # {}}
        size(hd) == Cardinality(Positions(st, hd[2], hd[1]))
        key(hd) == size(hd) * 1000 + hd[1] * 10 + hd[2]
    IN CHOOSE hd \in open : \A o \in open : key(hd) <= key(o)
RECURSIVE SortedSeq(_)
SortedSeq(S) == IF S = {} THEN << >> ELSE <<Min(S)>> \o SortedSeq(S \ {Min(S)})
\* the children of a state without singles: the guessed digit in each open position, in order
Children(st) ==
    LET hd == GuessKey(st)
        cs == SortedSeq(Positions(st, hd[2], hd[1]))
    IN [k \in 1 .. Len(cs) |-> Apply(st, cs[k], hd[2])]
\* The depth-first search keeps the states still to visit on a stack, first child on top.
\* One step visits the top state: drop it on a contradiction, place a single, record a
\* full grid, or replace it by its children.
SearchStep(s) ==
    LET st == Head(s.stack)
        rest == Tail(s.stack)
    IN IF Unsatisfiable(st) THEN [stack |-> rest, acc |-> s.acc]
       ELSE IF HasSingle(st) THEN [stack |-> <<PlaceSingle(st)>> \o rest, acc |-> s.acc]
       ELSE IF IsFull(st.grid) THEN [stack |-> rest, acc |-> Append(s.acc, st.grid)]
       ELSE [stack |-> Children(st) \o rest, acc |-> s.acc]
SearchDone(s, limit) == s.stack = << >> \/ Len(s.acc) >= limit
\* at most n steps, split in halves so that the evaluation nests only log n deep
RECURSIVE SearchSteps(_, _, _)
SearchSteps(s, limit, n) ==
    IF SearchDone(s, limit) THEN s
    ELSE IF n = 1 THEN SearchStep(s)
    ELSE SearchSteps(SearchSteps(s, limit, n \div 2), limit, n - (n \div 2))
RECURSIVE SearchLoop(_, _, _)
SearchLoop(s, limit, n) ==
    LET r == SearchSteps(s, limit, n)
    IN IF SearchDone(r, limit) THEN r ELSE SearchLoop(r, limit, 2 * n)
\* the solutions below st in depth-first order, appended to acc until there are limit of them
Search(st, limit, acc) == SearchLoop([stack |-> <<st>>, acc |-> acc], limit, 64).acc
SolverFromSudoku(g) ==
    IF ClueConflict(g) THEN [ok |-> FALSE, grid |-> g, cand |-> InitCand(EmptyGrid)]
    ELSE [ok |-> TRUE, grid |-> g, cand |-> InitCand(g)]
SolverSolutions(solver, limit) == Search([grid |-> solver.grid, cand |-> solver.cand], limit, << >>)
SolverCountAtMost(solver, limit) == Len(SolverSolutions(solver, limit))
SolverIsSolved(solver) == IsFull(solver.grid)
SolverSolveAtMost(solver, limit) == SolverSolutions(solver, limit)
\* writes the solutions found into the buffer up to its capacity, counts up to limit
SolverSolveAtMostBuffer(solver, buf, limit) ==
    LET found == SolverSolutions(solver, limit)
    IN [count |-> Len(found),
        target |-> [k \in 1 .. Len(buf) |-> IF k <= Len(found) THEN found[k] ELSE buf[k]]]

(***************************************************************************)
(* The facade's solving operations (impl Sudoku).                          *)
(***************************************************************************)
count_at_most_one_more(self, limit) ==
    LET solver == SolverFromSudoku(self)
    IN IF solver.ok THEN SolverCountAtMost(solver, limit + 1) ELSE 0
count_at_most(self, limit) ==
    LET solver == SolverFromSudoku(self)
    IN IF solver.ok THEN SolverCountAtMost(solver, limit) ELSE 0
is_solved_unvalidated(self) == IsFull(self)
is_solved(self) ==
    LET solver == SolverFromSudoku(self)
    IN IF solver.ok THEN SolverIsSolved(solver) ELSE FALSE
solve_at_most(self, limit) ==
    LET solver == SolverFromSudoku(self)
    IN IF solver.ok THEN SolverSolveAtMost(solver, limit) ELSE << >>
solve_at_most_buffer(self, buf, limit) ==
    LET solver == SolverFromSudoku(self)
    IN IF solver.ok THEN SolverSolveAtMostBuffer(solver, buf, limit)
       ELSE [count |-> 0, target |-> buf]
\* Option<Sudoku>: None is << >>, Some(s) is <<s>>
None == << >>
Some(s) == <<s>>
solve_one(self) ==
    LET buf == <<EmptyGrid>>
        r == solve_at_most_buffer(self, buf, 1)
    IN IF r.count = 1 THEN Some(r.target[1]) ELSE None
\* nums_contained is the set of bit positions set in the u16 mask, n_clues the count
\* of filled cells; solves tells whether the solver was run
solve_unique_with(self, limit) ==
    LET filled == {c \in Cells : self[c] # 0}
        nums_contained == {self[c] : c \in filled}
        n_clues == Cardinality(filled)
    IN IF n_clues < 17 \/ Cardinality(nums_contained) < 8
       THEN [value |-> None, solves |-> 0]
       ELSE LET solution == <<EmptyGrid>>
                r == solve_at_most_buffer(self, solution, limit)
                n_solutions == r.count
            IN [value |-> IF n_solutions = 1 THEN Some(r.target[1]) ELSE None, solves |-> 1]
solve_unique_limit_one(self) == solve_unique_with(self, 1)
solve_unique(self) == solve_unique_with(self, 2)
is_uniquely_solvable_first_only(self) == count_at_most(self, 1) = 1
is_uniquely_solvable_at_least_one(self) == count_at_most(self, 2) >= 1
is_uniquely_solvable(self) == count_at_most(self, 2) = 1

(***************************************************************************)
(* Grids and cell orders the model starts from.                            *)
(***************************************************************************)
FromRows(s) == [c \in Cells |-> s[c + 1]]
SolvedGrid == FromRows(<<4, 8, 3, 9, 2, 1, 6, 5, 7,
                         9, 6, 7, 3, 4, 5, 8, 2, 1,
                         2, 5, 1, 8, 7, 6, 4, 9, 3,
                         5, 4, 8, 1, 3, 2, 9, 7, 6,
                         7, 2, 9, 5, 6, 4, 1, 3, 8,
                         1, 3, 6, 7, 9, 8, 2, 4, 5,
                         3, 7, 2, 6, 8, 9, 5, 1, 4,
                         8, 1, 4, 2, 5, 3, 7, 6, 9,
                         6, 9, 5, 4, 1, 7, 3, 8, 2>>)
EasyPuzzle == FromRows(<<0, 0, 3, 0, 2, 0, 6, 0, 0,
                         9, 0, 0, 3, 0, 5, 0, 0, 1,
                         0, 0, 1, 8, 0, 6, 4, 0, 0,
                         0, 0, 8, 1, 0, 2, 9, 0, 0,
                         7, 0, 0, 0, 0, 0, 0, 0, 8,
                         0, 0, 6, 7, 0, 8, 2, 0, 0,
                         0, 0, 2, 6, 0, 9, 5, 0, 0,
                         8, 0, 0, 2, 0, 3, 0, 0, 9,
                         0, 0, 5, 0, 1, 0, 3, 0, 0>>)
\* clues that contradict no constraint directly but admit no completion
NoSolutionGrid == FromRows(<<0, 0, 0, 0, 0, 0, 0, 0, 0,
                             2, 0, 0, 0, 8, 0, 0, 3, 5,
                             0, 8, 0, 0, 9, 0, 0, 0, 0,
                             6, 0, 0, 0, 2, 0, 1, 0, 0,
                             0, 0, 0, 3, 0, 5, 0, 0, 0,
                             0, 0, 9, 0, 7, 0, 0, 0, 6,
                             0, 0, 0, 0, 5, 0, 0, 7, 0,
                             4, 3, 0, 0, 6, 0, 0, 0, 2,
                             0, 0, 0, 0, 0, 0, 0, 0, 0>>)
\* the solved grid with the four cells of an interchangeable rectangle blanked: two solutions
TwoSolutionGrid == [SolvedGrid EXCEPT ![1] = 0, ![6] = 0, ![10] = 0, ![15] = 0]
\* the solved grid with cell 0 overwritten by the digit of its neighbour: two 8s in row 0
ConflictGrid == [SolvedGrid EXCEPT ![0] = 8]
GenInputs == {SolvedGrid, EasyPuzzle, TwoSolutionGrid, NoSolutionGrid, ConflictGrid}
\* number of cell orders the random shuffle of cell_order is drawn from
NumOrders == 2
CellOrder(k) == [i \in Cells |-> ((3 * k - 2) * i + 5 * (k - 1)) % N_CELLS]
CellOrders == {CellOrder(k) : k \in 1 .. NumOrders}

VARIABLES
    pc,          \* position of the running operation
    input,       \* the grid the operation was called with
    sudoku,      \* the working grid (self.0)
    cell_order,  \* generate_unique_from: the shuffled order of the cells
    n_cell,      \* generate_unique_from: index into cell_order
    taken,       \* generate_unique_from: the branches taken so far
    rng,         \* shuffle: state of the random source
    draws,       \* shuffle: the numbers drawn by the last step
    before,      \* shuffle: the grid before the last step
    digits,      \* shuffle_digits: the relabelling table
    loop_i,      \* shuffle: counter of the loop over the three stacks and bands
    call,        \* solving operations: the operation called and its limit
    target,      \* solving operations: the caller's buffer of solve_at_most_buffer
    ret          \* solving operations: the value returned
vars == <<pc, input, sudoku, cell_order, n_cell, taken, rng, draws, before, digits, loop_i,
          call, target, ret>>
solveVars == <<call, target, ret>>
genVars == <<cell_order, n_cell, taken>>
shuffleVars == <<rng, draws, before, digits, loop_i>>
IdentityDigits == [d \in 0 .. 9 |-> d]

(***************************************************************************)
(* generate_unique_from: one action per uniqueness-checked removal step.   *)
(***************************************************************************)
CUTOFF == 20
PAIRED_END == 50
GenInit ==
    /\ pc = "batch"
    /\ input \in GenInputs
    /\ sudoku = input
    /\ cell_order \in CellOrders
    /\ n_cell = 0
    /\ taken = {}
    /\ rng = 0 /\ draws = << >> /\ before = input /\ digits = IdentityDigits /\ loop_i = 0
    /\ call = << >> /\ target = << >> /\ ret = << >>
\* lines 161-175: blank the first CUTOFF cells at once
GenBatch ==
    /\ pc = "batch"
    /\ LET sudoku_tmp == [c \in Cells |-> IF \E i \in 0 .. (CUTOFF - 1) : cell_order[i] = c
                                          THEN 0 ELSE sudoku[c]]
       IN IF is_uniquely_solvable(sudoku_tmp)
          THEN /\ sudoku' = sudoku_tmp
               /\ pc' = "paired"
               /\ n_cell' = CUTOFF
               /\ taken' = taken \cup {"batch_all"}
          ELSE /\ sudoku' = sudoku
               /\ pc' = "batch_each"
               /\ n_cell' = 0
               /\ taken' = taken \cup {"batch_each"}
    /\ UNCHANGED <<input, cell_order, shuffleVars, solveVars>>
\* lines 168-174: one pass of the loop that tries the first CUTOFF cells one by one
GenBatchEach ==
    /\ pc = "batch_each"
    /\ n_cell < CUTOFF
    /\ LET cell == cell_order[n_cell]
           sudoku_tmp == [sudoku EXCEPT ![cell] = 0]
       IN IF is_uniquely_solvable(sudoku_tmp)
          THEN sudoku' = sudoku_tmp /\ taken' = taken \cup {"removed"}
          ELSE sudoku' = sudoku /\ taken' = taken \cup {"kept"}
    /\ n_cell' = n_cell + 1
    /\ pc' = IF n_cell + 1 < CUTOFF THEN "batch_each" ELSE "paired"
    /\ UNCHANGED <<input, cell_order, shuffleVars, solveVars>>
\* the paired loop without its third attempt (blank the second cell only)
GenPaired_no_second ==
    /\ pc = "paired"
    /\ n_cell < PAIRED_END
    /\ LET cell1 == cell_order[n_cell]
           cell2 == cell_order[n_cell + 1]
           tmp_both == [sudoku EXCEPT ![cell1] = 0, ![cell2] = 0]
           tmp_first == [tmp_both EXCEPT ![cell2] = sudoku[cell2]]
       IN IF is_uniquely_solvable(tmp_both)
          THEN sudoku' = tmp_both /\ taken' = taken \cup {"both"}
          ELSE IF is_uniquely_solvable(tmp_first)
          THEN sudoku' = tmp_first /\ taken' = taken \cup {"first"}
          ELSE sudoku' = sudoku /\ taken' = taken \cup {"none"}
    /\ n_cell' = n_cell + 2
    /\ pc' = IF n_cell + 2 < PAIRED_END THEN "paired" ELSE "single"
    /\ UNCHANGED <<input, cell_order, shuffleVars, solveVars>>
\* lines 178-208: one pass of the paired loop
GenPaired ==
    /\ pc = "paired"
    /\ n_cell < PAIRED_END
    /\ LET cell1 == cell_order[n_cell]
           cell2 == cell_order[n_cell + 1]
           tmp_both == [sudoku EXCEPT ![cell1] = 0, ![cell2] = 0]
           tmp_first == [tmp_both EXCEPT ![cell2] = sudoku[cell2]]
           tmp_second == [tmp_first EXCEPT ![cell1] = sudoku[cell1], ![cell2] = 0]
       IN IF is_uniquely_solvable(tmp_both)
          THEN sudoku' = tmp_both /\ taken' = taken \cup {"both"}
          ELSE IF is_uniquely_solvable(tmp_first)
          THEN sudoku' = tmp_first /\ taken' = taken \cup {"first"}
          ELSE IF is_uniquely_solvable(tmp_second)
          THEN sudoku' = tmp_second /\ taken' = taken \cup {"second"}
          ELSE sudoku' = sudoku /\ taken' = taken \cup {"none"}
    /\ n_cell' = n_cell + 2
    /\ pc' = IF n_cell + 2 < PAIRED_END THEN "paired" ELSE "single"
    /\ UNCHANGED <<input, cell_order, shuffleVars, solveVars>>
\* lines 210-216: one pass of the loop over cell_order[50..]
GenSingle ==
    /\ pc = "single"
    /\ n_cell < N_CELLS
    /\ LET cell == cell_order[n_cell]
           sudoku_tmp == [sudoku EXCEPT ![cell] = 0]
       IN IF is_uniquely_solvable(sudoku_tmp)
          THEN sudoku' = sudoku_tmp /\ taken' = taken \cup {"removed"}
          ELSE sudoku' = sudoku /\ taken' = taken \cup {"kept"}
    /\ n_cell' = n_cell + 1
    /\ pc' = IF n_cell + 1 < N_CELLS THEN "single" ELSE "done"
    /\ UNCHANGED <<input, cell_order, shuffleVars, solveVars>>
GenPcs == {"batch", "batch_each", "paired", "single", "done"}
GenNext == GenBatch \/ GenBatchEach \/ GenPaired \/ GenSingle
Init == GenInit
Next == GenNext
Spec == Init /\ [][Next]_vars

(***************************************************************************)
(* shuffle: the cell swaps and the steps of Sudoku::shuffle.               *)
(***************************************************************************)
RECURSIVE swap_cells(_, _)
swap_cells(self, iter) ==
    IF iter = << >> THEN self
    ELSE LET idx1 == Head(iter)[1]
             idx2 == Head(iter)[2]
             a == self[idx1]
             b == self[idx2]
         IN swap_cells([self EXCEPT ![idx1] = b, ![idx2] = a], Tail(iter))
swap_rows(self, row1, row2) ==
    IF row1 = row2 THEN self
    ELSE LET start1 == row1 * 9
             start2 == row2 * 9
         IN swap_cells(self, [k \in 1 .. 9 |-> <<start1 + k - 1, start2 + k - 1>>])
swap_cols(self, col1, col2) ==
    IF col1 = col2 THEN self
    ELSE swap_cells(self, [k \in 1 .. 9 |-> <<(k - 1) * 9 + col1, (k - 1) * 9 + col2>>])
swap_stacks(self, stack1, stack2) ==
    IF stack1 = stack2 THEN self
    ELSE swap_cols(swap_cols(swap_cols(self, stack1 * 3, stack2 * 3),
                             stack1 * 3 + 1, stack2 * 3 + 1),
                   stack1 * 3 + 2, stack2 * 3 + 2)
\* the source calls swap_cols here, as in swap_stacks
swap_bands(self, band1, band2) ==
    IF band1 = band2 THEN self
    ELSE swap_cols(swap_cols(swap_cols(self, band1 * 3, band2 * 3),
                             band1 * 3 + 1, band2 * 3 + 1),
                   band1 * 3 + 2, band2 * 3 + 2)
RECURSIVE TransposePairs(_, _)
TransposePairs(row, col) ==
    IF row > 8 THEN << >>
    ELSE IF col > 8 THEN TransposePairs(row + 1, row + 2)
    ELSE <<<<row * 9 + col, col * 9 + row>>>> \o TransposePairs(row, col + 1)
transpose(self) == swap_cells(self, TransposePairs(0, 1))
\* the loop swapping with index num instead of 1 + num
RECURSIVE DigitsLoop_zero_based(_, _, _)
DigitsLoop_zero_based(table, permutation, n_choices) ==
    IF n_choices < 1 THEN table
    ELSE LET num == permutation % n_choices
         IN DigitsLoop_zero_based([table EXCEPT ![n_choices] = table[num], ![num] = table[n_choices]],
                                  permutation \div n_choices, n_choices - 1)
\* the Fisher-Yates loop of shuffle_digits over n_choices = 9, 8, .., 1
RECURSIVE DigitsLoop(_, _, _)
DigitsLoop(table, permutation, n_choices) ==
    IF n_choices < 1 THEN table
    ELSE LET num == permutation % n_choices
         IN DigitsLoop([table EXCEPT ![n_choices] = table[1 + num], ![1 + num] = table[n_choices]],
                       permutation \div n_choices, n_choices - 1)
DigitsTable(permutation) == DigitsLoop(IdentityDigits, permutation, 9)
Relabel(self, table) == [c \in Cells |-> table[self[c]]]
FACTORIAL_9 == 362880
\* the random source: a linear congruential generator, seeded at the start
RNG_MULT == 75
RNG_INC == 74
RNG_MOD == 65537
RngNext(x) == (x * RNG_MULT + RNG_INC) % RNG_MOD
gen_range(raw, low, high) == low + (raw % (high - low))
gen_bool(raw) == (raw % 2) = 1
shuffle_bands(self, raw1, raw2) ==
    swap_bands(swap_bands(self, 0, gen_range(raw1, 0, 3)), 1, gen_range(raw2, 1, 3))
shuffle_stacks(self, raw1, raw2) ==
    swap_stacks(swap_stacks(self, 0, gen_range(raw1, 0, 3)), 1, gen_range(raw2, 1, 3))
\* the row shuffle drawing its partner row from the whole grid below first_row
shuffle_rows_of_band_any_row(self, raw1, raw2, band) ==
    LET first_row == band * 3
    IN swap_rows(swap_rows(self, first_row, gen_range(raw1, first_row, 9)),
                 first_row + 1, gen_range(raw2, first_row + 1, 9))
shuffle_rows_of_band(self, raw1, raw2, band) ==
    LET first_row == band * 3
    IN swap_rows(swap_rows(self, first_row, gen_range(raw1, first_row, first_row + 3)),
                 first_row + 1, gen_range(raw2, first_row + 1, first_row + 3))
shuffle_cols_of_stack(self, raw1, raw2, stack) ==
    LET first_col == stack * 3
    IN swap_cols(swap_cols(self, first_col, gen_range(raw1, first_col, first_col + 3)),
                 first_col + 1, gen_range(raw2, first_col + 1, first_col + 3))

\* a grid whose rows and columns are complete but whose boxes are not
LatinGrid == [c \in Cells |-> ((Row(c) + Col(c)) % 9) + 1]
ShuffleInputs == {SolvedGrid, EasyPuzzle, ConflictGrid, LatinGrid}
\* number of seeds of the random source
NumSeeds == 100
ShuffleInit ==
    /\ pc = "digits"
    /\ input \in ShuffleInputs
    /\ sudoku = input
    /\ before = input
    /\ rng \in 1 .. NumSeeds
    /\ draws = << >>
    /\ digits = IdentityDigits
    /\ loop_i = 0
    /\ cell_order = << >> /\ n_cell = 0 /\ taken = {}
    /\ call = << >> /\ target = << >> /\ ret = << >>
ShuffleDigits ==
    /\ pc = "digits"
    /\ LET raw == RngNext(rng)
           permutation == gen_range(raw, 0, FACTORIAL_9)
       IN /\ digits' = DigitsTable(permutation)
          /\ sudoku' = Relabel(sudoku, digits')
          /\ draws' = <<permutation>>
          /\ rng' = raw
    /\ before' = sudoku
    /\ pc' = "bands"
    /\ UNCHANGED <<input, loop_i, genVars, solveVars>>
ShuffleBands ==
    /\ pc = "bands"
    /\ LET raw1 == RngNext(rng)
           raw2 == RngNext(raw1)
       IN /\ sudoku' = shuffle_bands(sudoku, raw1, raw2)
          /\ draws' = <<gen_range(raw1, 0, 3), gen_range(raw2, 1, 3)>>
          /\ rng' = raw2
    /\ before' = sudoku
    /\ pc' = "stacks"
    /\ UNCHANGED <<input, digits, loop_i, genVars, solveVars>>
ShuffleStacks ==
    /\ pc = "stacks"
    /\ LET raw1 == RngNext(rng)
           raw2 == RngNext(raw1)
       IN /\ sudoku' = shuffle_stacks(sudoku, raw1, raw2)
          /\ draws' = <<gen_range(raw1, 0, 3), gen_range(raw2, 1, 3)>>
          /\ rng' = raw2
    /\ before' = sudoku
    /\ pc' = "cols"
    /\ loop_i' = 0
    /\ UNCHANGED <<input, digits, genVars, solveVars>>
ShuffleColsOfStack ==
    /\ pc = "cols"
    /\ loop_i < 3
    /\ LET raw1 == RngNext(rng)
           raw2 == RngNext(raw1)
       IN /\ sudoku' = shuffle_cols_of_stack(sudoku, raw1, raw2, loop_i)
          /\ draws' = <<gen_range(raw1, loop_i * 3, loop_i * 3 + 3), gen_range(raw2, loop_i * 3 + 1, loop_i * 3 + 3)>>
          /\ rng' = raw2
    /\ before' = sudoku
    /\ pc' = "rows"
    /\ UNCHANGED <<input, digits, loop_i, genVars, solveVars>>
ShuffleRowsOfBand ==
    /\ pc = "rows"
    /\ loop_i < 3
    /\ LET raw1 == RngNext(rng)
           raw2 == RngNext(raw1)
       IN /\ sudoku' = shuffle_rows_of_band(sudoku, raw1, raw2, loop_i)
          /\ draws' = <<gen_range(raw1, loop_i * 3, loop_i * 3 + 3), gen_range(raw2, loop_i * 3 + 1, loop_i * 3 + 3)>>
          /\ rng' = raw2
    /\ before' = sudoku
    /\ loop_i' = loop_i + 1
    /\ pc' = IF loop_i + 1 < 3 THEN "cols" ELSE "transpose"
    /\ UNCHANGED <<input, digits, genVars, solveVars>>
ShuffleTranspose ==
    /\ pc = "transpose"
    /\ LET raw == RngNext(rng)
       IN /\ sudoku' = IF gen_bool(raw) THEN transpose(sudoku) ELSE sudoku
          /\ draws' = <<raw % 2>>
          /\ rng' = raw
    /\ before' = sudoku
    /\ pc' = "shuffled"
    /\ UNCHANGED <<input, digits, loop_i, genVars, solveVars>>
ShuffleNext ==
    \/ ShuffleDigits \/ ShuffleBands \/ ShuffleStacks
    \/ ShuffleColsOfStack \/ ShuffleRowsOfBand \/ ShuffleTranspose
ShuffleSpec == ShuffleInit /\ [][ShuffleNext]_vars

(***************************************************************************)
(* shuffle_digits alone, over every value of the random integer.           *)
(***************************************************************************)
DigitsInit ==
    /\ pc = "digits"
    /\ input \in {EasyPuzzle}
    /\ sudoku = input
    /\ before = input
    /\ rng = 0
    /\ draws = << >>
    /\ digits = IdentityDigits
    /\ loop_i = 0
    /\ cell_order = << >> /\ n_cell = 0 /\ taken = {}
    /\ call = << >> /\ target = << >> /\ ret = << >>
DigitsAny ==
    /\ pc = "digits"
    /\ \E permutation \in 0 .. (FACTORIAL_9 - 1) :
          /\ digits' = DigitsTable(permutation)
          /\ sudoku' = Relabel(sudoku, digits')
          /\ draws' = <<permutation>>
    /\ before' = sudoku
    /\ pc' = "bands"
    /\ UNCHANGED <<input, rng, loop_i, genVars, solveVars>>
DigitsSpec == DigitsInit /\ [][DigitsAny]_vars

(***************************************************************************)
(* The solving operations of the facade, each called once on a grid.       *)
(***************************************************************************)
\* cells blanked in the grids the operations are called on: the interchangeable
\* rectangle 1, 6, 10, 15 and the 8 of column 0
BlankPool == {1, 6, 10, 15, 63}
MaxBlanks == 4
MaxLimit == 3
BigLimit == 10
MaxBuffer == 2
Blanked(g, B) == [c \in Cells |-> IF c \in B THEN 0 ELSE g[c]]
\* two 5s in row 0 and nothing else
TwoFivesGrid == [c \in Cells |-> IF c < 2 THEN 5 ELSE 0]
\* the solved grid without its 8s and 9s: 63 clues, 7 distinct digits
SevenDigitGrid == [c \in Cells |-> IF SolvedGrid[c] >= 8 THEN 0 ELSE SolvedGrid[c]]
NearlySolvedInputs ==
    {Blanked(g, B) : g \in {SolvedGrid, ConflictGrid},
                     B \in {X \in SUBSET BlankPool : Cardinality(X) <= MaxBlanks}}
SolveInputs ==
    NearlySolvedInputs \cup {EmptyGrid, EasyPuzzle, NoSolutionGrid, TwoFivesGrid, SevenDigitGrid}
Limits == 0 .. MaxLimit
SolveInit ==
    /\ pc = "idle"
    /\ input \in SolveInputs
    /\ sudoku = input
    /\ call = << >> /\ target = << >> /\ ret = << >>
    /\ rng = 0 /\ draws = << >> /\ before = input /\ digits = IdentityDigits /\ loop_i = 0
    /\ cell_order = << >> /\ n_cell = 0 /\ taken = {}
Returned == pc' = "returned" /\ UNCHANGED <<input, sudoku, genVars, shuffleVars>>
CallCountAtMost ==
    /\ pc = "idle"
    /\ \E limit \in Limits \cup {BigLimit} :
          /\ call' = <<"count_at_most", limit>>
          /\ ret' = count_at_most(sudoku, limit)
    /\ target' = target
    /\ Returned
CallIsUniquelySolvable ==
    /\ pc = "idle"
    /\ call' = <<"is_uniquely_solvable">>
    /\ ret' = is_uniquely_solvable(sudoku)
    /\ target' = target
    /\ Returned
CallSolveAtMost ==
    /\ pc = "idle"
    /\ \E limit \in Limits :
          /\ call' = <<"solve_at_most", limit>>
          /\ ret' = solve_at_most(sudoku, limit)
    /\ target' = target
    /\ Returned
CallSolveAtMostBuffer ==
    /\ pc = "idle"
    /\ \E limit \in Limits, capacity \in 0 .. MaxBuffer :
          LET r == solve_at_most_buffer(sudoku, [k \in 1 .. capacity |-> EmptyGrid], limit)
          IN /\ call' = <<"solve_at_most_buffer", limit, capacity>>
             /\ ret' = r.count
             /\ target' = r.target
    /\ Returned
CallSolveOne ==
    /\ pc = "idle"
    /\ call' = <<"solve_one">>
    /\ ret' = solve_one(sudoku)
    /\ target' = target
    /\ Returned
CallSolveUnique ==
    /\ pc = "idle"
    /\ call' = <<"solve_unique">>
    /\ ret' = solve_unique(sudoku)
    /\ target' = target
    /\ Returned
CallIsSolved ==
    /\ pc = "idle"
    /\ call' = <<"is_solved">>
    /\ ret' = is_solved(sudoku)
    /\ target' = target
    /\ Returned
SolveNext ==
    \/ CallCountAtMost \/ CallIsUniquelySolvable \/ CallSolveAtMost
    \/ CallSolveAtMostBuffer \/ CallSolveOne \/ CallSolveUnique \/ CallIsSolved
SolveSpec == SolveInit /\ [][SolveNext]_vars

(***************************************************************************)
(* The line format: from_str_line and to_str_line.  A string is the        *)
(* sequence of its bytes.                                                  *)
(***************************************************************************)
UNDERSCORE == 95
DOT == 46
ZERO == 48
NINE == 57
SPACE == 32
TAB == 9
CR == 13
LF == 10
SEMICOLON == 59
COMMA == 44
IsCellByte(ch) == ch = UNDERSCORE \/ ch = DOT \/ (ch >= ZERO /\ ch <= NINE)
IsDelimiterByte(ch) == ch \in {TAB, SPACE, CR, LF, SEMICOLON, COMMA}
\* s[i..].chars().next(): the character that starts at byte i (0-based) of a UTF-8 string,
\* one byte below 128, two bytes from a lead byte 192..223
CharAt(chars, i) ==
    LET b == chars[i + 1]
    IN IF b < 128 THEN b ELSE (b - 192) * 64 + (chars[i + 2] - 128)
Ok(v) == [ok |-> TRUE, value |-> v]
Err(e) == [ok |-> FALSE, err |-> e]
\* lines 263-306.  The loop over grid.iter_mut().zip(chars) stops at the first byte that is
\* no cell entry; i is the number of cells read before it.
from_str_line_no_length_check(chars) ==
    LET n == IF Len(chars) < N_CELLS THEN Len(chars) ELSE N_CELLS
        bad == {k \in 0 .. (n - 1) : ~IsCellByte(chars[k + 1])}
    IN IF bad # {}
       THEN LET i == Min(bad)
                ch == chars[i + 1]
            IN IF ch = SPACE \/ ch = TAB THEN Err(<<"NotEnoughCells", i>>)
               ELSE Err(<<"InvalidEntry", i, CharAt(chars, i)>>)
       ELSE IF n # N_CELLS THEN Err(<<"NotEnoughCells", n>>)
       ELSE Ok([c \in Cells |-> IF chars[c + 1] = UNDERSCORE \/ chars[c + 1] = DOT
                                 THEN 0 ELSE chars[c + 1] - ZERO])
from_str_line(chars) ==
    LET n == IF Len(chars) < N_CELLS THEN Len(chars) ELSE N_CELLS
        bad == {k \in 0 .. (n - 1) : ~IsCellByte(chars[k + 1])}
    IN IF bad # {}
       THEN LET i == Min(bad)
                ch == chars[i + 1]
            IN IF ch = SPACE \/ ch = TAB THEN Err(<<"NotEnoughCells", i>>)
               ELSE Err(<<"InvalidEntry", i, CharAt(chars, i)>>)
       ELSE IF n # N_CELLS THEN Err(<<"NotEnoughCells", n>>)
       ELSE IF Len(chars) > N_CELLS /\ ~IsDelimiterByte(chars[N_CELLS + 1])
            THEN IF IsCellByte(chars[N_CELLS + 1]) THEN Err(<<"TooManyCells">>)
                 ELSE Err(<<"MissingCommentDelimiter">>)
       ELSE Ok([c \in Cells |-> IF chars[c + 1] = UNDERSCORE \/ chars[c + 1] = DOT
                                 THEN 0 ELSE chars[c + 1] - ZERO])
\* lines 742-751: Some(num) => num + b'0', None => b'.'
to_str_line_zero_digit(self) == [k \in 1 .. N_CELLS |-> self[k - 1] + ZERO]
to_str_line(self) ==
    [k \in 1 .. N_CELLS |-> IF self[k - 1] = 0 THEN DOT ELSE self[k - 1] + ZERO]

\* the strings from_str_line is called with: the line of a grid with a snippet spliced in at
\* byte i in place of k bytes, followed by a suffix, and the line cut short
MixedBlanks(g) ==
    [k \in 1 .. N_CELLS |-> IF g[k - 1] # 0 THEN g[k - 1] + ZERO
                            ELSE IF k % 3 = 0 THEN UNDERSCORE
                            ELSE IF k % 3 = 1 THEN ZERO ELSE DOT]
LineBases == {to_str_line(SolvedGrid), to_str_line(EasyPuzzle), MixedBlanks(EasyPuzzle)}
Snippets ==
    {<< >>, <<SPACE>>, <<TAB>>, <<CR>>, <<LF>>, <<SEMICOLON>>, <<COMMA>>, <<120>>, <<45>>,
     <<195, 169>>, <<49>>, <<DOT>>, <<UNDERSCORE>>, <<ZERO>>}
Suffixes == {<< >>, <<SPACE, 120>>, <<120, 49>>}
MaxDropped == 1
Splice(base, i, snip, k, suffix) ==
    SubSeq(base, 1, i) \o snip \o SubSeq(base, i + k + 1, Len(base)) \o suffix
LineStrings ==
    {Splice(base, i, snip, k, suffix) :
        base \in LineBases, i \in 0 .. N_CELLS, snip \in Snippets, k \in 0 .. MaxDropped,
        suffix \in Suffixes}
    \cup {SubSeq(base, 1, n) : base \in LineBases, n \in 0 .. N_CELLS}
\* the grids to_str_line is called with: the inputs of the other operations and every
\* grid with one clue
LineGrids ==
    {SolvedGrid, EasyPuzzle, NoSolutionGrid, ConflictGrid, EmptyGrid}
    \cup {[EmptyGrid EXCEPT ![c] = d] : c \in Cells, d \in Digits}
LineInit ==
    /\ pc = "line_idle"
    /\ call \in {<<"to_str_line", g>> : g \in LineGrids}
                \cup {<<"from_str_line", t>> : t \in LineStrings}
    /\ input = EmptyGrid /\ sudoku = EmptyGrid
    /\ cell_order = << >> /\ n_cell = 0 /\ taken = {}
    /\ rng = 0 /\ draws = << >> /\ before = EmptyGrid /\ digits = IdentityDigits /\ loop_i = 0
    /\ target = << >> /\ ret = << >>
\* to_str_line on a grid, then from_str_line on the line it gave
CallToStrLine ==
    /\ pc = "line_idle" /\ call[1] = "to_str_line"
    /\ target' = to_str_line(call[2])
    /\ pc' = "printed"
    /\ UNCHANGED <<input, sudoku, genVars, shuffleVars, call, ret>>
ReadBack ==
    /\ pc = "printed"
    /\ ret' = from_str_line(target)
    /\ pc' = "read_back"
    /\ UNCHANGED <<input, sudoku, genVars, shuffleVars, call, target>>
\* from_str_line on a string, then to_str_line on the grid it gave
CallFromStrLine ==
    /\ pc = "line_idle" /\ call[1] = "from_str_line"
    /\ ret' = from_str_line(call[2])
    /\ pc' = "parsed"
    /\ UNCHANGED <<input, sudoku, genVars, shuffleVars, call, target>>
PrintBack ==
    /\ pc = "parsed" /\ ret.ok
    /\ target' = to_str_line(ret.value)
    /\ pc' = "printed_back"
    /\ UNCHANGED <<input, sudoku, genVars, shuffleVars, call, ret>>
LineNext == CallToStrLine \/ ReadBack \/ CallFromStrLine \/ PrintBack
LineSpec == LineInit /\ [][LineNext]_vars

(***************************************************************************)
(* The block format: from_str_block.  The input is the sequence of the     *)
(* lines s.lines() yields, each line the sequence of its characters.       *)
(***************************************************************************)
BAR == 124
DASH == 45
PLUS == 43
N_ROWS == 9
DashSeparator == [k \in 1 .. 11 |-> DASH]
PlusSeparator == [k \in 1 .. 11 |-> IF k % 4 = 0 THEN PLUS ELSE DASH]
starts_with(line, prefix) ==
    Len(line) >= Len(prefix) /\ \A k \in 1 .. Len(prefix) : line[k] = prefix[k]
\* line.trim().is_empty()
TrimIsEmpty(line) == \A k \in 1 .. Len(line) : line[k] \in {SPACE, TAB, CR, LF, 11, 12}
\* lines 388-425: the loop over the characters of one row.  The format is fixed at
\* character 3 of a row read while it is unknown; n_before(k) is n_col_sud when the loop
\* reaches character k; the loop stops at the first character that breaks or fails.
RowLoop(line, format, n_line_sud) ==
    LET fmt == IF format = "Unknown" /\ Len(line) > 3
               THEN (IF line[4] = BAR THEN "Delimited" ELSE "Bare")
               ELSE format
        delimited == fmt \in {"Delimited", "DelimitedPlus"}
        n_before(k) == IF ~delimited THEN k ELSE IF k > 7 THEN k - 2 ELSE IF k > 3 THEN k - 1 ELSE k
        at_delimiter(k) == delimited /\ (k = 3 \/ k = 7)
        goes_on(k) ==
            /\ n_before(k) < 9
            /\ IF at_delimiter(k) THEN line[k + 1] = BAR ELSE IsCellByte(line[k + 1])
        stops == {k \in 0 .. (Len(line) - 1) : ~goes_on(k)}
        seen == IF stops = {} THEN Len(line) ELSE Min(stops)
        set_before == seen >= 3 /\ Len(line) > 3
        format_after == IF set_before THEN fmt ELSE format
        ch == line[seen + 1]
        vals == [n \in 0 .. 8 |->
                    LET k == IF ~delimited THEN n ELSE n + (n \div 3)
                    IN IF line[k + 1] = UNDERSCORE \/ line[k + 1] = DOT THEN 0
                       ELSE line[k + 1] - ZERO]
        fail(e) == [err |-> e, format |-> format_after, vals |-> << >>]
    IN IF stops = {}
       THEN IF n_before(seen) # 9 THEN fail(<<"InvalidLineLength", n_line_sud>>)
            ELSE [err |-> << >>, format |-> format_after, vals |-> vals]
       ELSE IF n_before(seen) = 9
            THEN IF ch = SPACE \/ ch = TAB
                 THEN [err |-> << >>, format |-> format_after, vals |-> vals]
                 ELSE IF IsCellByte(ch) THEN fail(<<"InvalidLineLength", n_line_sud>>)
                 ELSE fail(<<"MissingCommentDelimiter", n_line_sud>>)
       ELSE IF at_delimiter(seen) THEN fail(<<"IncorrectFieldDelimiter">>)
       ELSE fail(<<"InvalidEntry", n_line_sud * 9 + n_before(seen), ch>>)
\* lines 366-386: the 4th and the 8th line of a delimited block
SeparatorLine(line, n_line_str, format) ==
    LET sep_format == IF n_line_str = 3 /\ starts_with(line, PlusSeparator)
                      THEN "DelimitedPlus" ELSE format
    IN IF sep_format = "Delimited"
       THEN [err |-> IF ~starts_with(line, DashSeparator) THEN <<"IncorrectFieldDelimiter">> ELSE << >>,
             format |-> sep_format]
       ELSE [err |-> IF ~starts_with(line, PlusSeparator) THEN <<"IncorrectFieldDelimiter">> ELSE << >>,
             format |-> sep_format]
SeparatorLine_unchecked(line, n_line_str, format) == [err |-> << >>, format |-> format]
\* lines 358-433: one pass of the loop over the lines: the result to return, or the
\* state the loop goes on with
LineStep(line, n_line_str, n_line_sud, format, grid, checked) ==
    LET sep == IF checked THEN SeparatorLine(line, n_line_str, format)
               ELSE SeparatorLine_unchecked(line, n_line_str, format)
        row == RowLoop(line, format, n_line_sud)
        going(n, f, g) == [stop |-> FALSE, n_line_sud |-> n, format |-> f, grid |-> g]
        return(r) == [stop |-> TRUE, result |-> r]
    IN IF n_line_sud = N_ROWS
       THEN IF TrimIsEmpty(line) THEN return(Ok(grid)) ELSE return(Err(<<"TooManyRows">>))
       ELSE IF format \in {"Delimited", "DelimitedPlus"} /\ (n_line_str = 3 \/ n_line_str = 7)
            THEN IF sep.err # << >> THEN return(Err(sep.err))
                 ELSE going(n_line_sud, sep.format, grid)
       ELSE IF row.err # << >> THEN return(Err(row.err))
       ELSE going(n_line_sud + 1, row.format,
                  [c \in Cells |-> IF Row(c) = n_line_sud THEN row.vals[Col(c)] ELSE grid[c]])
RECURSIVE LinesLoop(_, _, _, _)
LinesLoop(lines, n_line_str, st, checked) ==
    IF st.stop THEN st.result
    ELSE IF n_line_str >= Len(lines)
    THEN IF st.n_line_sud # N_ROWS THEN Err(<<"NotEnoughRows", st.n_line_sud + 1>>) ELSE Ok(st.grid)
    ELSE LinesLoop(lines, n_line_str + 1,
                   LineStep(lines[n_line_str + 1], n_line_str, st.n_line_sud, st.format, st.grid, checked),
                   checked)
BlockStart == [stop |-> FALSE, n_line_sud |-> 0, format |-> "Unknown", grid |-> EmptyGrid]
from_str_block_separators_unchecked(lines) == LinesLoop(lines, 0, BlockStart, FALSE)
from_str_block(lines) == LinesLoop(lines, 0, BlockStart, TRUE)

\* the inputs of from_str_block: the block of a grid, bare or delimited with either
\* separator on the 4th and on the 8th line, then one change: a character written at or
\* after a position of a line, a line cut short, a line left out, replaced or added
CellChar(v) == IF v = 0 THEN UNDERSCORE ELSE v + ZERO
BareBlock(g) == [r \in 1 .. 9 |-> [k \in 1 .. 9 |-> CellChar(g[(r - 1) * 9 + (k - 1)])]]
DelimitedRow(g, r) ==
    [k \in 1 .. 11 |-> IF k % 4 = 0 THEN BAR
                       ELSE CellChar(g[r * 9 + ((k - 1) - ((k - 1) \div 4))])]
DelimitedBlock(g, sep1, sep2) ==
    [l \in 1 .. 11 |-> IF l = 4 THEN sep1 ELSE IF l = 8 THEN sep2
                       ELSE DelimitedRow(g, (l - 1) - ((l - 1) \div 4))]
Separators == {DashSeparator, PlusSeparator}
BlockBases ==
    {BareBlock(EasyPuzzle)}
    \cup {DelimitedBlock(EasyPuzzle, s1, s2) : s1 \in Separators, s2 \in Separators}
BlockChars == {BAR, DASH, PLUS, SPACE, TAB, DOT, ZERO, 120}
OtherLines ==
    Separators \cup {<< >>, <<SPACE, TAB>>, DashSeparator \o <<SPACE, 120>>, PlusSeparator \o <<120>>,
                     SubSeq(DashSeparator, 1, 10), BareBlock(SolvedGrid)[1],
                     DelimitedRow(SolvedGrid, 0)}
Prefix(line, n) == SubSeq(line, 1, IF n < Len(line) THEN n ELSE Len(line))
SetChar(lines, l, k, ch) ==
    [lines EXCEPT ![l] = Prefix(lines[l], k) \o <<ch>> \o SubSeq(lines[l], k + 2, Len(lines[l]))]
CutLine(lines, l, n) == [lines EXCEPT ![l] = Prefix(lines[l], n)]
DropLine(lines, l) == SubSeq(lines, 1, l - 1) \o SubSeq(lines, l + 1, Len(lines))
ChangesOf(b) ==
    {SetChar(b, l, k, ch) : l \in 1 .. Len(b), k \in 0 .. 11, ch \in BlockChars}
    \cup {CutLine(b, l, n) : l \in 1 .. Len(b), n \in 0 .. 11}
    \cup {DropLine(b, l) : l \in 1 .. Len(b)}
    \cup {[b EXCEPT ![l] = o] : l \in 1 .. Len(b), o \in OtherLines}
    \cup {b \o <<o>> : o \in OtherLines}
BlockInputs == BlockBases \cup UNION {ChangesOf(b) : b \in BlockBases}
BlockInit ==
    /\ pc = "block_idle"
    /\ call \in {<<"from_str_block", t>> : t \in BlockInputs}
    /\ input = EmptyGrid /\ sudoku = EmptyGrid
    /\ cell_order = << >> /\ n_cell = 0 /\ taken = {}
    /\ rng = 0 /\ draws = << >> /\ before = EmptyGrid /\ digits = IdentityDigits /\ loop_i = 0
    /\ target = << >> /\ ret = << >>
CallFromStrBlock ==
    /\ pc = "block_idle" /\ call[1] = "from_str_block"
    /\ ret' = from_str_block(call[2])
    /\ pc' = "block_parsed"
    /\ UNCHANGED <<input, sudoku, genVars, shuffleVars, call, target>>
BlockNext == CallFromStrBlock
BlockSpec == BlockInit /\ [][BlockNext]_vars

(***************************************************************************)
(* Sequences of public operations: a constructor, then shuffle and         *)
(* generate_unique_from on the value, in any order.                        *)
(***************************************************************************)
\* lines 224-235
from_bytes_slice(bytes) ==
    IF Len(bytes) # N_CELLS THEN Err(<< >>)
    ELSE IF \A k \in 1 .. Len(bytes) : bytes[k] <= 9
         THEN Ok([c \in Cells |-> bytes[c + 1]])
         ELSE Err(<< >>)
\* lines 239-244
from_bytes_unchecked(bytes) == Ok([c \in Cells |-> bytes[c + 1]])
from_bytes(bytes) ==
    IF \A k \in 1 .. N_CELLS : bytes[k] <= 9
    THEN Ok([c \in Cells |-> bytes[c + 1]])
    ELSE Err(<< >>)
\* lines 449-478: the cells of a line are its cell characters, whatever stands between
\* them; a line with 9 of them is a row, the first 9 such lines are the grid
RowVals(line) == SelectSeq(line, IsCellByte)
HasFullRow(line) == Len(RowVals(line)) >= 9
from_str_block_permissive(lines) ==
    LET rows == SelectSeq(lines, HasFullRow)
    IN IF Len(rows) >= N_ROWS
       THEN Ok([c \in Cells |->
                   LET ch == RowVals(rows[Row(c) + 1])[Col(c) + 1]
                   IN IF ch = UNDERSCORE \/ ch = DOT THEN 0 ELSE ch - ZERO])
       ELSE Err(<<"NotEnoughRows", Len(rows)>>)
\* lines 909-913: the arm of the match on a cell in the block display
DisplayArm(num) ==
    IF num = 0 THEN "underscore" ELSE IF num >= 1 /\ num <= 9 THEN "digit" ELSE "unreachable"
\* the byte arrays and slices of the constructors: grids, and grids with a byte,
\* or the length, out of range
BytesOf(g) == [k \in 1 .. N_CELLS |-> g[k - 1]]
AllNines == [c \in Cells |-> 9]
ByteArrays ==
    {BytesOf(SolvedGrid), BytesOf(AllNines), BytesOf([c \in Cells |-> c % 10]),
     BytesOf([SolvedGrid EXCEPT ![40] = 10]), BytesOf([EmptyGrid EXCEPT ![80] = 255]),
     BytesOf([c \in Cells |-> IF c = 0 THEN 58 ELSE 9])}
ByteSlices ==
    ByteArrays \cup {SubSeq(BytesOf(SolvedGrid), 1, 80), BytesOf(SolvedGrid) \o <<0>>, << >>,
                    SubSeq(BytesOf([EmptyGrid EXCEPT ![80] = 255]), 1, 80)}
OpsLines ==
    {to_str_line(EasyPuzzle), MixedBlanks(NoSolutionGrid) \o <<SPACE, 120>>,
     to_str_line(SolvedGrid) \o <<49>>, SubSeq(to_str_line(SolvedGrid), 1, 80) \o <<58>>}
\* a block with borders and spaces between the cells, for the permissive reader
LaxBlock(g) ==
    [l \in 1 .. 11 |-> IF l = 1 \/ l = 11 THEN <<43, DASH, DASH, DASH, 43>>
                       ELSE <<BAR, SPACE>> \o
                            [k \in 1 .. 18 |-> IF k % 2 = 0 THEN SPACE
                                               ELSE CellChar(g[(l - 2) * 9 + ((k - 1) \div 2)])]
                            \o <<BAR, 58>>]
OpsBlocks ==
    {BareBlock(EasyPuzzle), DelimitedBlock(SolvedGrid, PlusSeparator, PlusSeparator),
     DelimitedBlock(SolvedGrid, PlusSeparator, DashSeparator), LaxBlock(TwoSolutionGrid),
     DropLine(LaxBlock(TwoSolutionGrid), 5)}
\* number of shuffle and generate_unique_from calls in a sequence, and the seeds of
\* the thread's random number generator
MaxTransforms == 2
OpsSeeds == {1, 2}
OpsInit ==
    /\ pc = "start"
    /\ call = <<"none", 0>>
    /\ input = EmptyGrid /\ sudoku = EmptyGrid
    /\ cell_order = << >> /\ n_cell = 0 /\ taken = {}
    /\ rng = 0 /\ draws = << >> /\ before = EmptyGrid /\ digits = IdentityDigits /\ loop_i = 0
    /\ target = << >> /\ ret = << >>
\* a constructor: call holds its name and the number of transformations so far, target
\* its argument, ret its result; an Ok result is the value the sequence goes on with,
\* and the argument and the result are dropped at the first transformation
Construct(name, arg, result) ==
    /\ pc = "start"
    /\ call' = <<name, 0>>
    /\ target' = arg
    /\ ret' = result
    /\ pc' = IF result.ok THEN "value" ELSE "failed"
    /\ sudoku' = IF result.ok THEN result.value ELSE sudoku
    /\ UNCHANGED <<input, genVars, shuffleVars>>
OpsFromBytes == \E bytes \in ByteArrays : Construct("from_bytes", bytes, from_bytes(bytes))
OpsFromBytesSlice ==
    \E bytes \in ByteSlices : Construct("from_bytes_slice", bytes, from_bytes_slice(bytes))
OpsFromStrLine == \E s \in OpsLines : Construct("from_str_line", s, from_str_line(s))
OpsFromStrBlock == \E s \in OpsBlocks : Construct("from_str_block", s, from_str_block(s))
OpsFromStrBlockPermissive ==
    \E s \in OpsBlocks : Construct("from_str_block_permissive", s, from_str_block_permissive(s))
\* shuffle and generate_unique_from are entered here and run by their own actions
OpsShuffle ==
    /\ pc = "value" /\ call[2] < MaxTransforms
    /\ call' = <<"shuffle", call[2] + 1>>
    /\ pc' = "digits"
    /\ input' = sudoku /\ before' = sudoku
    /\ rng' \in OpsSeeds
    /\ draws' = << >> /\ digits' = IdentityDigits /\ loop_i' = 0
    /\ target' = << >> /\ ret' = << >>
    /\ UNCHANGED <<sudoku, genVars>>
OpsGenerate ==
    /\ pc = "value" /\ call[2] < MaxTransforms
    /\ call' = <<"generate_unique_from", call[2] + 1>>
    /\ pc' = "batch"
    /\ input' = sudoku
    /\ cell_order' = CellOrder(1) /\ n_cell' = 0 /\ taken' = {}
    /\ target' = << >> /\ ret' = << >>
    /\ UNCHANGED <<sudoku, shuffleVars>>
OpsReturn ==
    /\ pc \in {"shuffled", "done"}
    /\ pc' = "value"
    /\ UNCHANGED <<input, sudoku, genVars, shuffleVars, solveVars>>
OpsNext ==
    \/ OpsFromBytes \/ OpsFromBytesSlice \/ OpsFromStrLine \/ OpsFromStrBlock
    \/ OpsFromStrBlockPermissive
    \/ OpsShuffle \/ OpsGenerate \/ OpsReturn
    \/ ShuffleDigits \/ ShuffleBands \/ ShuffleStacks
    \/ ShuffleColsOfStack \/ ShuffleRowsOfBand \/ ShuffleTranspose
    \/ GenBatch \/ GenBatchEach \/ GenPaired \/ GenSingle
OpsSpec == OpsInit /\ [][OpsNext]_vars

(***************************************************************************)
(* Yardsticks the claims are stated with: the number of solutions of a     *)
(* grid up to a limit, taken from the search directly.                     *)
(***************************************************************************)
NumSolutionsUpTo(g, limit) ==
    IF ClueConflict(g) THEN 0
    ELSE Len(Search([grid |-> g, cand |-> InitCand(g)], limit, << >>))
UniquelySolvable(g) == NumSolutionsUpTo(g, 2) = 1
TheSolution(g) == Search([grid |-> g, cand |-> InitCand(g)], 1, << >>)[1]
OnlyBlanked(p, g) == \A i \in Cells : p[i] = g[i] \/ p[i] = 0

\* C1: from a uniquely solvable grid, the working puzzle is uniquely solvable after
\* every step of the batch, paired and single phases and differs from the input only
\* by blanked cells; the returned puzzle has the solution of the input.
C1_GenKeepsUniqueSolution ==
    UniquelySolvable(input) =>
        /\ UniquelySolvable(sudoku)
        /\ OnlyBlanked(sudoku, input)
        /\ pc = "done" => TheSolution(sudoku) = TheSolution(input)
\* a finished run on a uniquely solvable grid that removed clues in every phase
C1_Witness ==
    /\ pc = "done"
    /\ UniquelySolvable(input)
    /\ sudoku # input
    /\ {"batch_all", "both", "removed"} \subseteq taken
    /\ UniquelySolvable(sudoku)

\* C2: the puzzle returned for a uniquely solvable grid is minimal: blanking any
\* remaining clue leaves a grid that is not uniquely solvable.
C2_GenResultMinimal ==
    (pc = "done" /\ UniquelySolvable(input)) =>
        \A c \in Cells : sudoku[c] # 0 => ~UniquelySolvable([sudoku EXCEPT ![c] = 0])
\* a finished run that went through the one-by-one batch branch and all four paired branches
C2_Witness ==
    /\ pc = "done"
    /\ UniquelySolvable(input)
    /\ {"batch_each", "both", "first", "second", "none"} \subseteq taken
    /\ \E c \in Cells : sudoku[c] # 0
C2_WitnessBatchAll ==
    /\ pc = "done"
    /\ UniquelySolvable(input)
    /\ {"batch_all", "first"} \subseteq taken

\* C3: a grid with several solutions is never changed: no removal is accepted.
C3_GenMultiSolutionUnchanged ==
    NumSolutionsUpTo(input, 2) = 2 => sudoku = input
C3_Witness ==
    /\ pc = "done"
    /\ NumSolutionsUpTo(input, 2) = 2
    /\ sudoku = input
    /\ \E c \in Cells : input[c] # 0

\* C4: a grid with conflicting clues or without any solution is returned unchanged.
C4_GenInvalidUnchanged ==
    NumSolutionsUpTo(input, 1) = 0 => sudoku = input

\* the rank of a relabelling table: the integer the Fisher-Yates loop decodes to it
RECURSIVE RankLoop(_, _, _)
RankLoop(table, final, n_choices) ==
    IF n_choices < 1 THEN 0
    ELSE LET pos == CHOOSE k \in 1 .. n_choices : table[k] = final[n_choices]
             num == pos - 1
         IN num + n_choices * RankLoop([table EXCEPT ![n_choices] = table[pos], ![pos] = table[n_choices]],
                                       final, n_choices - 1)
Rank(final) == RankLoop(IdentityDigits, final, 9)
AllHousesComplete(g) == \A h \in Houses : {g[c] : c \in HouseCells[h]} = Digits
\* C5: at every step of shuffle the grid is solved exactly when the input is, and a
\* solved grid keeps each of 1..9 exactly once in every row, column and box.
C5_ShufflePreservesSolved ==
    /\ is_solved(sudoku) = is_solved(input)
    /\ is_solved(input) => AllHousesComplete(sudoku)
\* a solved grid after the whole shuffle, transposed in the last step
C5_Witness ==
    /\ pc = "shuffled"
    /\ is_solved(input)
    /\ draws = <<1>>
    /\ sudoku # input
    /\ is_solved(sudoku)

\* the grid with the rows of band1 and band2 exchanged
ExchangeBands(g, band1, band2) ==
    [c \in Cells |->
        IF band1 = band2 THEN g[c]
        ELSE IF Row(c) \div 3 = band1 THEN g[(band2 * 3 + (Row(c) % 3)) * 9 + Col(c)]
        ELSE IF Row(c) \div 3 = band2 THEN g[(band1 * 3 + (Row(c) % 3)) * 9 + Col(c)]
        ELSE g[c]]
\* C6: the band step exchanges whole rows: after swap_bands(0, j0) and swap_bands(1, j1)
\* every row 3*b1+k has changed places with row 3*b2+k and all other rows are unchanged.
C6_BandsStepExchangesRows ==
    pc = "stacks" =>
        sudoku = ExchangeBands(ExchangeBands(before, 0, draws[1]), 1, draws[2])

\* C7: for every random integer the decoded table fixes 0 and maps 1..9 one-to-one
\* onto 1..9, the integer is recovered from the table (distinct integers give
\* distinct tables), every cell is relabelled by the table, blank cells stay blank and
\* cells of different content keep different content.
C7_DigitsRelabelIsPermutation ==
    pc = "bands" =>
        /\ digits[0] = 0
        /\ {digits[d] : d \in Digits} = Digits
        /\ Rank(digits) = draws[1]
        /\ \A c \in Cells : sudoku[c] = digits[before[c]]
        /\ \A c \in Cells : sudoku[c] = 0 <=> before[c] = 0
        /\ \A d1, d2 \in 0 .. 9 : digits[d1] = digits[d2] <=> d1 = d2
\* the random integer 0: the table is not the identity and the grid has changed
C7_Witness ==
    /\ pc = "bands"
    /\ draws = <<0>>
    /\ digits # IdentityDigits
    /\ sudoku # before
    /\ \E c \in Cells : before[c] = 0

\* two equal digits in one row, column or box
HasContradiction(g) ==
    \E h \in Houses : \E c1, c2 \in HouseCells[h] : c1 # c2 /\ g[c1] # 0 /\ g[c1] = g[c2]
\* the completions of a grid that satisfy every row, column and box constraint,
\* by enumeration of all fillings of its blank cells
TrueSolutions(g) ==
    LET blanks == {c \in Cells : g[c] = 0}
    IN {f \in [blanks -> Digits] :
            AllHousesComplete([c \in Cells |-> IF c \in blanks THEN f[c] ELSE g[c]])}
MinOf(a, b) == IF a <= b THEN a ELSE b
IsCompletionOf(s, g) == AllHousesComplete(s) /\ \A c \in Cells : g[c] # 0 => s[c] = g[c]
\* C8: count_at_most(limit) is at most limit, counts distinct valid completions, and on the
\* grids small enough to enumerate equals min(limit, number of completions);
\* is_uniquely_solvable holds there iff there is exactly one completion; the empty
\* grid saturates every limit.
C8_CountIsMinOfLimitAndTrue ==
    /\ (pc = "returned" /\ call[1] = "count_at_most") =>
          LET limit == call[2]
              found == Search([grid |-> input, cand |-> InitCand(input)], ret, << >>)
          IN /\ ret <= limit
             /\ Len(found) = ret
             /\ \A k \in 1 .. ret : IsCompletionOf(found[k], input)
             /\ \A k, l \in 1 .. ret : found[k] = found[l] => k = l
             /\ input \in NearlySolvedInputs =>
                    ret = MinOf(limit, Cardinality(TrueSolutions(input)))
             /\ input = EmptyGrid => ret = limit
    /\ (pc = "returned" /\ call[1] = "is_uniquely_solvable" /\ input \in NearlySolvedInputs) =>
          ret = (Cardinality(TrueSolutions(input)) = 1)
\* the grid with exactly two completions, counted with a limit of three
C8_Witness ==
    /\ pc = "returned"
    /\ call = <<"count_at_most", 3>>
    /\ input = TwoSolutionGrid
    /\ Cardinality(TrueSolutions(input)) = 2
    /\ ret = 2

\* C9: on a grid with two equal digits in a house every solving operation returns its
\* empty answer: 0, an empty list, None, false, and the buffer is left as it was.
C9_ContradictionGivesNothing ==
    (pc = "returned" /\ HasContradiction(input)) =>
        CASE call[1] = "count_at_most" -> ret = 0
          [] call[1] = "is_uniquely_solvable" -> ret = FALSE
          [] call[1] = "solve_at_most" -> ret = << >>
          [] call[1] = "solve_at_most_buffer" ->
                ret = 0 /\ target = [k \in 1 .. call[3] |-> EmptyGrid]
          [] call[1] = "solve_one" -> ret = None
          [] call[1] = "solve_unique" -> ret.value = None
          [] call[1] = "is_solved" -> ret = FALSE
\* a filled grid with two 8s in row 0 offered to solve_at_most_buffer with a two-slot buffer
C9_Witness ==
    /\ pc = "returned"
    /\ input = ConflictGrid
    /\ call = <<"solve_at_most_buffer", 2, 2>>
    /\ ret = 0
    /\ target = <<EmptyGrid, EmptyGrid>>

NumClues(g) == Cardinality({c \in Cells : g[c] # 0})
NumDistinctDigits(g) == Cardinality({g[c] : c \in Cells} \ {0})
\* C10: solve_unique returns Some(S) exactly when the grid has at least 17 clues, at
\* least 8 distinct digits and exactly one solution up to the limit 2; S is that
\* solution and keeps every clue; with too few clues or digits it returns None
\* without running the solver; a solved grid is returned as it is.
C10_SolveUniqueExactly ==
    (pc = "returned" /\ call[1] = "solve_unique") =>
        LET enough == NumClues(input) >= 17 /\ NumDistinctDigits(input) >= 8
        IN /\ ret.value # None <=> (enough /\ NumSolutionsUpTo(input, 2) = 1)
           /\ ret.value # None =>
                 /\ ret.value = Some(TheSolution(input))
                 /\ IsCompletionOf(ret.value[1], input)
           /\ ~enough => (ret.solves = 0 /\ ret.value = None)
           /\ (IsFull(input) /\ AllHousesComplete(input)) => ret.value = Some(input)
\* the 32-clue puzzle solved to the solved grid
C10_Witness ==
    /\ pc = "returned"
    /\ call = <<"solve_unique">>
    /\ input = EasyPuzzle
    /\ ret.solves = 1
    /\ ret.value = Some(SolvedGrid)

\* C11: to_str_line writes 81 characters in row-major order, '.' for an empty cell and
\* the digit character for a clue; from_str_line of that line gives the grid back; and
\* to_str_line of the grid parsed from an accepted string is its first 81 characters
\* with every '_' and '0' replaced by '.'.
C11_LineRoundTrip ==
    /\ (pc \in {"printed", "read_back"}) =>
          /\ Len(target) = N_CELLS
          /\ \A c \in Cells : target[c + 1] = (IF call[2][c] = 0 THEN DOT ELSE ZERO + call[2][c])
          /\ \A c \in Cells : target[c + 1] = DOT \/ (target[c + 1] > ZERO /\ target[c + 1] <= NINE)
    /\ pc = "read_back" => ret = Ok(call[2])
    /\ pc = "printed_back" =>
          target = [k \in 1 .. N_CELLS |-> IF call[2][k] \in {UNDERSCORE, ZERO} THEN DOT
                                           ELSE call[2][k]]
\* the 32-clue puzzle printed and read back
C11_Witness ==
    /\ pc = "read_back"
    /\ call = <<"to_str_line", EasyPuzzle>>
    /\ target[1] = DOT /\ target[3] = ZERO + 3
    /\ ret = Ok(EasyPuzzle)
\* a string with '_', '0' and '.' for its empty cells and a comment, parsed and printed
C11_WitnessPrintBack ==
    /\ pc = "printed_back"
    /\ call[2] = MixedBlanks(EasyPuzzle) \o <<SPACE, 120>>
    /\ target = to_str_line(EasyPuzzle)
    /\ target # SubSeq(call[2], 1, N_CELLS)

\* the characters of a cell and the delimiters of a comment, as the documentation lists them
CellChars == {95, 46} \cup (48 .. 57)
DelimiterChars == {32, 9, 13, 10, 59, 44}
\* C12: from_str_line returns Ok iff the string has at least 81 bytes, the first 81 are
\* cell characters and byte 81 is absent or a delimiter; otherwise the first offence
\* decides the error: a space or tab at i < 81 gives NotEnoughCells(i), another invalid
\* byte at i < 81 gives InvalidEntry with cell i, fewer than 81 valid bytes give
\* NotEnoughCells(length), a cell character at 81 gives TooManyCells, any other byte at
\* 81 gives MissingCommentDelimiter; what follows a valid delimiter is ignored.
C12_FromStrLineErrors ==
    (pc = "parsed") =>
        LET t == call[2]
            len == Len(t)
            valid(i) == i < len /\ t[i + 1] \in CellChars
            firstOffence(i) == i < N_CELLS /\ i < len /\ ~valid(i) /\ \A k \in 0 .. (i - 1) : valid(k)
            allValid == \A k \in 0 .. (N_CELLS - 1) : valid(k)
        IN /\ ret.ok <=> (len >= N_CELLS /\ allValid /\ (len = N_CELLS \/ t[N_CELLS + 1] \in DelimiterChars))
           /\ \A i \in 0 .. (N_CELLS - 1) :
                 firstOffence(i) =>
                    IF t[i + 1] \in {32, 9}
                    THEN ~ret.ok /\ ret.err = <<"NotEnoughCells", i>>
                    ELSE ~ret.ok /\ ret.err[1] = "InvalidEntry" /\ ret.err[2] = i
           /\ (len < N_CELLS /\ \A k \in 0 .. (len - 1) : valid(k)) =>
                 (~ret.ok /\ ret.err = <<"NotEnoughCells", len>>)
           /\ (allValid /\ len > N_CELLS /\ t[N_CELLS + 1] \in CellChars) =>
                 (~ret.ok /\ ret.err = <<"TooManyCells">>)
           /\ (allValid /\ len > N_CELLS /\ t[N_CELLS + 1] \notin CellChars \cup DelimiterChars) =>
                 (~ret.ok /\ ret.err = <<"MissingCommentDelimiter">>)
           /\ ret.ok => \A c \in Cells :
                 ret.value[c] = (IF t[c + 1] \in {95, 46} THEN 0 ELSE t[c + 1] - 48)
\* 81 cell characters followed by the letter x without a delimiter
C12_Witness ==
    /\ pc = "parsed"
    /\ call[2] = to_str_line(EasyPuzzle) \o <<120, 49>>
    /\ ret = Err(<<"MissingCommentDelimiter">>)
\* the other outcomes: a tab in cell 40, a two-byte character in cell 80, a line of 80
\* cells, a line of 82 cells, and a comment after a semicolon
C12_WitnessNotEnoughCells ==
    /\ pc = "parsed"
    /\ Len(call[2]) = N_CELLS /\ call[2][41] = 9
    /\ ret = Err(<<"NotEnoughCells", 40>>)
C12_WitnessInvalidEntry ==
    /\ pc = "parsed"
    /\ Len(call[2]) > N_CELLS /\ call[2][81] = 195
    /\ ret = Err(<<"InvalidEntry", 80, 233>>)
C12_WitnessTruncated ==
    /\ pc = "parsed"
    /\ Len(call[2]) = 80
    /\ ret = Err(<<"NotEnoughCells", 80>>)
C12_WitnessTooManyCells ==
    /\ pc = "parsed"
    /\ Len(call[2]) = 82
    /\ ret = Err(<<"TooManyCells">>)
C12_WitnessComment ==
    /\ pc = "parsed"
    /\ Len(call[2]) = 84 /\ call[2][82] = 59
    /\ ret = Ok(SolvedGrid)

\* what the documentation of the block format asks of a line
BareRowOk(line) ==
    /\ Len(line) >= 9
    /\ \A k \in 1 .. 9 : line[k] \in CellChars
    /\ Len(line) = 9 \/ line[10] \in {32, 9}
DelimitedRowPrefix(line, p) ==
    /\ Len(line) >= p
    /\ \A k \in 1 .. (p - 1) : IF k = 4 \/ k = 8 THEN line[k] = 124 ELSE line[k] \in CellChars
DelimitedRowOk(line) ==
    /\ DelimitedRowPrefix(line, 11)
    /\ line[11] \in CellChars
    /\ Len(line) = 11 \/ line[12] \in {32, 9}
IsDashLine(line) == Len(line) >= 11 /\ \A k \in 1 .. 11 : line[k] = 45
IsPlusLine(line) ==
    Len(line) >= 11 /\ \A k \in 1 .. 11 : line[k] = (IF k = 4 \/ k = 8 THEN 43 ELSE 45)
IsBlankLine(line) == \A k \in 1 .. Len(line) : line[k] \in {32, 9}
\* the 4th character of the first row is '|'
IsDelimitedInput(t) == Len(t) >= 1 /\ DelimitedRowPrefix(t[1], 4) /\ t[1][4] = 124
DelimitedLineOk(t, l) ==
    IF l = 4 THEN IsDashLine(t[4]) \/ IsPlusLine(t[4])
    ELSE IF l = 8 THEN (IsDashLine(t[4]) /\ IsDashLine(t[8])) \/ (IsPlusLine(t[4]) /\ IsPlusLine(t[8]))
    ELSE DelimitedRowOk(t[l])
BareBlockOk(t) ==
    /\ Len(t) >= 9
    /\ \A l \in 1 .. 9 : BareRowOk(t[l])
    /\ Len(t) = 9 \/ IsBlankLine(t[10])
DelimitedBlockOk(t) ==
    /\ Len(t) >= 11
    /\ \A l \in 1 .. 11 : DelimitedLineOk(t, l)
    /\ Len(t) = 11 \/ IsBlankLine(t[12])
CellValue(ch) == IF ch \in {95, 46} THEN 0 ELSE ch - 48
\* the error of a '|' that is the first offence of a block whose format is not delimited:
\* in row l (from 1) at character k (from 0), all lines before and all characters before fine
BareBarAt(t, l, k) ==
    /\ ~IsDelimitedInput(t)
    /\ l <= Len(t) /\ \A j \in 1 .. (l - 1) : BareRowOk(t[j])
    /\ Len(t[l]) > k /\ t[l][k + 1] = 124
    /\ \A i \in 1 .. k : t[l][i] \in CellChars

C13_WitnessBareOk ==
    /\ pc = "block_parsed" /\ call[2] = BareBlock(EasyPuzzle) /\ ret = Ok(EasyPuzzle)
C13_WitnessDelimitedOk ==
    /\ pc = "block_parsed"
    /\ call[2] = DelimitedBlock(EasyPuzzle, PlusSeparator, PlusSeparator) \o << <<SPACE, TAB>> >>
    /\ ret = Ok(EasyPuzzle)
C13_WitnessBareBar ==
    /\ pc = "block_parsed" /\ BareBarAt(call[2], 2, 4)
    /\ ret = Err(<<"InvalidEntry", 13, 124>>)
C13_WitnessBarAfterRow ==
    /\ pc = "block_parsed" /\ BareBarAt(call[2], 1, 9)
    /\ ret = Err(<<"MissingCommentDelimiter", 0>>)
C13_WitnessRowDelimiter ==
    /\ pc = "block_parsed" /\ IsDelimitedInput(call[2])
    /\ Len(call[2]) = 11 /\ Len(call[2][6]) = 11 /\ call[2][6][8] = 120
    /\ ret = Err(<<"IncorrectFieldDelimiter">>)
\* the condition on which from_bytes and from_bytes_slice fail
BytesRejected(bytes) == Len(bytes) # N_CELLS \/ \E k \in 1 .. Len(bytes) : bytes[k] > 9
\* C14: through every sequence of public operations (a constructor, then shuffle and
\* generate_unique_from in any order) all 81 cells of the value are in 0..9, so every
\* cell is an index of the digit table of shuffle_digits and no cell takes the
\* unreachable arm of the block display; from_bytes and from_bytes_slice return Err
\* exactly when a byte exceeds 9 or the length is not 81.
C14_CellsInRange ==
    /\ DOMAIN sudoku = Cells
    /\ \A c \in Cells :
          /\ sudoku[c] \in 0 .. 9
          /\ sudoku[c] \in DOMAIN digits
          /\ DisplayArm(sudoku[c]) # "unreachable"
    /\ call[1] \in {"from_bytes", "from_bytes_slice"} =>
          /\ ret.ok = ~BytesRejected(target)
          /\ ret.ok => \A c \in Cells : ret.value[c] = target[c + 1]
\* a constructed value has been shuffled and then reduced by generate_unique_from
C14_Witness ==
    /\ pc = "value" /\ call = <<"generate_unique_from", 2>>
    /\ draws # << >> /\ sudoku # input
    /\ \E c \in Cells : sudoku[c] = 0 /\ input[c] # 0
C14_WitnessShuffled ==
    /\ pc = "value" /\ call = <<"shuffle", 2>>
    /\ sudoku # input /\ \E c \in Cells : sudoku[c] = 9
C14_WitnessByteTen ==
    /\ pc = "failed" /\ call[1] = "from_bytes"
    /\ \E k \in 1 .. N_CELLS : target[k] = 10
C14_WitnessShortSlice ==
    /\ pc = "failed" /\ call[1] = "from_bytes_slice"
    /\ Len(target) = 80 /\ \A k \in 1 .. 80 : target[k] <= 9
C14_WitnessPermissive ==
    /\ pc = "value" /\ call = <<"from_str_block_permissive", 0>>
    /\ Len(target) = 11 /\ sudoku = TwoSolutionGrid
=============================================================================
